---------------------------- MODULE Spec2Model ----------------------------
(***************************************************************************)
(* The rhoas_kafka resource of terraform-provider-rhoas: kafkaCreate,      *)
(* kafkaRead and kafkaDelete acting on one resource record d               *)
(* (a schema.ResourceData) against the remote Kafka management API and the *)
(* per-instance admin API (ACL bindings).                                  *)
(*                                                                         *)
(* Every handler is cut at its remote calls: one action runs the code up   *)
(* to and including one remote call and everything that follows it up to   *)
(* the next remote call (or the return).  The remote system is an          *)
(* environment that may change the instance's status between two calls.    *)
(***************************************************************************)
EXTENDS Naturals, Sequences, FiniteSets

----------------------------------------------------------------------------
(* Bounds of the model *)

\* polls of GetKafkaById that fit into the time budget d.Timeout(TimeoutCreate)
MaxPolls == 2
\* longest `acl` list of a configuration
MaxAcl == 2
\* CreateKafka calls that succeed in one run (each assigns a fresh identifier)
MaxCreates == 1
\* instances created one after the other when the configured name changes
MaxRecreates == 2

----------------------------------------------------------------------------
(* Values *)

\* rhoas/clients/default_client.go:16 names the vocabulary; "ready" is the
\* create target (part_000:249) and "deleted" the delete target (part_000:165).
StatusAccepted == "accepted"
StatusPreparing == "preparing"
StatusProvisioning == "provisioning"
StatusFailed == "failed"
StatusDeprovision == "deprovision"
StatusDeleting == "deleting"
StatusReady == "ready"
StatusDeleted == "deleted"

Statuses ==
  { StatusAccepted, StatusPreparing, StatusProvisioning, StatusReady,
    StatusFailed, StatusDeprovision, StatusDeleting, StatusDeleted }

\* the remote instance does not exist (get-by-id and delete-by-id answer 404)
Absent == "absent"

\* Text of err.Error() of a failed remote call: the HTTP status line.  The
\* reason phrase of a status line is optional, so a 404 reads "404 " or
\* "404 Not Found"; the code compares against both spellings
\* (part_000:135, part_000:155).
Err404Bare == "404 "
Err404NotFound == "404 Not Found"
Err500 == "500 Internal Server Error"
NoErr == "nil"
NotFoundTexts == { Err404Bare, Err404NotFound }

\* schema defaults of the optional inputs
DefaultCloudProvider == "aws"
DefaultRegion == "us-east-1"

Names == { "", "foo" }

\* the six keys createACLForKafka reads from one element of `acl`
AclFields ==
  << "principal", "resource_type", "resource_name", "pattern_type",
     "operation_type", "permission_type" >>
AllAclFields == { AclFields[k] : k \in 1..Len(AclFields) }
\* a binding specification is the set of keys its map holds
BindingSpecs == { AllAclFields, AllAclFields \ { "operation_type" } }

RECURSIVE SeqsUpTo(_, _)
SeqsUpTo(S, n) ==
  IF n = 0 THEN { << >> }
  ELSE LET shorter == SeqsUpTo(S, n - 1)
       IN  shorter \cup { Append(s, x) : s \in { t \in shorter : Len(t) = n - 1 }, x \in S }

AclLists == SeqsUpTo(BindingSpecs, MaxAcl)


----------------------------------------------------------------------------
(* Remote records and errors *)

\* identifier the remote system assigns at its n-th successful CreateKafka
KafkaIds == << "k1", "k2", "k3", "k4" >>
NoId == ""

\* body of an error response: empty, a reason that says "... not found"
\* (lower case, what strings.Contains looks for at part_000:175), or another
BodyNone == ""
BodyNotFound == "KafkaResource not found"
BodyOther == "internal error"

\* an error of a remote call: err.Error() is `text`, the response body `body`
RemoteErr(text, body) == [text |-> text, body |-> body]
NilErr == RemoteErr(NoErr, BodyNone)
IsNil(e) == e.text = NoErr

\* errors a call answers when the instance does not exist
NotFoundErrs == { RemoteErr(t, b) : t \in NotFoundTexts, b \in { BodyNone, BodyNotFound } }
\* errors a call may answer whatever the instance's state (transport, 5xx)
OtherErrs == { RemoteErr(Err500, BodyOther) }

\* instants: the zero time.Time and the instant the remote system stamps
ZeroTime == "zero"
CreationTime == "t0"

\* kafkamgmtclient.KafkaRequest as get-by-id returns it for remote record r
KafkaRequest(r) ==
  [ id |-> r.id, status |-> r.status, name |-> r.name,
    cloud_provider |-> r.cloud_provider, region |-> r.region,
    bootstrap_server_host |-> r.bootstrap_server_host,
    href |-> "/api/kafkas_mgmt/v1/kafkas/id",
    owner |-> "owner", kind |-> "Kafka", version |-> "v",
    created_at |-> CreationTime, updated_at |-> CreationTime ]

\* the zero value of KafkaRequest: what Execute() returns beside an error
ZeroKafkaRequest ==
  [ id |-> "", status |-> "", name |-> "", cloud_provider |-> "", region |-> "",
    bootstrap_server_host |-> "", href |-> "", owner |-> "", kind |-> "",
    version |-> "", created_at |-> ZeroTime, updated_at |-> ZeroTime ]

\* time.Time.Format(time.RFC3339): a string made from the instant
FormatRFC3339(t) ==
  IF t = ZeroTime THEN "0001-01-01T00:00:00Z" ELSE "2022-01-01T00:00:00Z"

\* there is no remote instance
NoRemote ==
  [ id |-> NoId, status |-> Absent, name |-> "", cloud_provider |-> "",
    region |-> "", bootstrap_server_host |-> "" ]

\* the record the remote system holds right after it accepted a create request
NewRemote(id, payload) ==
  [ id |-> id, status |-> StatusAccepted, name |-> payload.name,
    cloud_provider |-> payload.cloud_provider, region |-> payload.region,
    bootstrap_server_host |-> "" ]

BootstrapHost == "kafka.example.com:443"

\* utils.GetAPIError(resp, err): the error translated from err and the
\* response body.  A non-nil err gives a non-nil error carrying err's text and
\* the body.  What it gives for a nil err (part_000:241 passes the outer,
\* nil, err) is not fixed: nil, or an error.
GetAPIError(err) ==
  IF IsNil(err) THEN { NilErr, RemoteErr("", BodyOther) }
  ELSE { RemoteErr(err.text, err.body) }

\* strings.Contains(err.Error(), "not found") for a translated error: none of
\* the status-line texts holds the lower-case words, the body may
ContainsNotFound(e) == e.body = BodyNotFound


----------------------------------------------------------------------------
(* Field Mapper *)

\* a value the schema layer hands out for a field that is not a string
NotAString == [notAString |-> TRUE]
IsString(v) == v \in STRING

\* the resource record the framework hands to kafkaCreate for a configuration:
\* the inputs set, every computed attribute empty, no identifier
NewResourceData(name, acl) ==
  [ id |-> NoId, name |-> name, cloud_provider |-> DefaultCloudProvider,
    region |-> DefaultRegion, acl |-> acl, status |-> "",
    bootstrap_server_host |-> "", href |-> "", owner |-> "", kind |-> "",
    version |-> "", created_at |-> "", updated_at |-> "", id_attr |-> "" ]

\* mutant: the payload is built without the configured name
mapResourceDataToKafkaPayload_DropsName(rd) ==
  IF ~IsString(rd.cloud_provider) THEN [ok |-> FALSE, field |-> "cloud_provider"]
  ELSE IF ~IsString(rd.region) THEN [ok |-> FALSE, field |-> "region"]
  ELSE IF ~IsString(rd.name) THEN [ok |-> FALSE, field |-> "name"]
  ELSE [ ok |-> TRUE, name |-> "", cloud_provider |-> rd.cloud_provider,
         region |-> rd.region ]

\* mutant: the payload takes the provider for the region and the region for
\* the provider
mapResourceDataToKafkaPayload_SwapsProviderRegion(rd) ==
  IF ~IsString(rd.cloud_provider) THEN [ok |-> FALSE, field |-> "cloud_provider"]
  ELSE IF ~IsString(rd.region) THEN [ok |-> FALSE, field |-> "region"]
  ELSE IF ~IsString(rd.name) THEN [ok |-> FALSE, field |-> "name"]
  ELSE [ ok |-> TRUE, name |-> rd.name, cloud_provider |-> rd.region,
         region |-> rd.cloud_provider ]

\* mapResourceDataToKafkaPayload: the payload, or the field whose value is not
\* a string.  Nothing else is validated: an empty name is a string.
mapResourceDataToKafkaPayload(rd) ==
  IF ~IsString(rd.cloud_provider) THEN [ok |-> FALSE, field |-> "cloud_provider"]
  ELSE IF ~IsString(rd.region) THEN [ok |-> FALSE, field |-> "region"]
  ELSE IF ~IsString(rd.name) THEN [ok |-> FALSE, field |-> "name"]
  ELSE [ ok |-> TRUE, name |-> rd.name, cloud_provider |-> rd.cloud_provider,
         region |-> rd.region ]

\* mutant: the hydration leaves the status attribute out
setResourceDataFromKafkaData_NoStatus(rd, kafka) ==
  [ rd EXCEPT !.cloud_provider = kafka.cloud_provider,
              !.region = kafka.region,
              !.name = kafka.name,
              !.href = kafka.href,
              !.owner = kafka.owner,
              !.bootstrap_server_host = kafka.bootstrap_server_host,
              !.created_at = FormatRFC3339(kafka.created_at),
              !.updated_at = FormatRFC3339(kafka.updated_at),
              !.id_attr = kafka.id,
              !.kind = kafka.kind,
              !.version = kafka.version ]

\* setResourceDataFromKafkaData: every d.Set stores a string and cannot fail;
\* d.Set("id", ...) writes the attribute, not the identifier d.Id()
setResourceDataFromKafkaData(rd, kafka) ==
  [ rd EXCEPT !.cloud_provider = kafka.cloud_provider,
              !.region = kafka.region,
              !.name = kafka.name,
              !.href = kafka.href,
              !.status = kafka.status,
              !.owner = kafka.owner,
              !.bootstrap_server_host = kafka.bootstrap_server_host,
              !.created_at = FormatRFC3339(kafka.created_at),
              !.updated_at = FormatRFC3339(kafka.updated_at),
              !.id_attr = kafka.id,
              !.kind = kafka.kind,
              !.version = kafka.version ]

----------------------------------------------------------------------------
(* Status Poller: resource.StateChangeConf as the two handlers configure it *)

CreatePending == { StatusAccepted, StatusPreparing, StatusProvisioning }
CreateTarget == { StatusReady }
DeletePending == { StatusDeprovision, StatusDeleting }
State404 == "404"
DeleteTarget == { StatusDeleted, State404 }

\* mutant: a state outside both sets is taken for a pending one
WaitForStateStep_OtherIsPending(pending, target, state, err) ==
  IF ~IsNil(err) THEN "error"
  ELSE IF state \in target THEN "done"
  ELSE "pending"

\* What WaitForStateContext does with one result of Refresh that carries a
\* value: the error ends the wait; a state of the target set ends it with
\* the value (ContinuousTargetOccurence 0 counts as 1); a state of the pending
\* set keeps it polling; any other state ends it with an
\* UnexpectedStateError, since the pending set is not empty.
WaitForStateStep(pending, target, state, err) ==
  IF ~IsNil(err) THEN "error"
  ELSE IF state \in target THEN "done"
  ELSE IF state \in pending THEN "pending"
  ELSE "unexpected_state"

----------------------------------------------------------------------------
(* DefaultClient.KafkaAdmin *)

\* the outcome of KafkaAdmin for the answer (kafkaInstance, err) of its own
\* get-by-id: "ok" (an admin client) or the error it returns
KafkaAdmin(kafkaInstance, err) ==
  IF err.text \in NotFoundTexts /\ err.body = BodyNotFound THEN "not_found"
  ELSE IF kafkaInstance.status \in { StatusProvisioning, StatusAccepted } THEN "not_ready"
  ELSE IF kafkaInstance.status = StatusFailed THEN "failed"
  ELSE IF kafkaInstance.status = StatusDeprovision THEN "deprovisioned"
  ELSE IF kafkaInstance.status = StatusDeleting THEN "deleted"
  ELSE IF kafkaInstance.bootstrap_server_host = "" THEN "no_bootstrap"
  ELSE "ok"

----------------------------------------------------------------------------
(* createACLForKafka: the checks of one element of the list *)

RECURSIVE FirstMissing(_, _)
\* the first key, in the order the code reads them, the element lacks; "" if none
FirstMissing(element, k) ==
  IF k > Len(AclFields) THEN ""
  ELSE IF AclFields[k] \notin element THEN AclFields[k]
  ELSE FirstMissing(element, k + 1)


----------------------------------------------------------------------------
(* State *)

VARIABLES
  d,            \* the resource record: inputs, computed attributes, d.Id()
  remote,       \* the instance the remote system holds (status Absent: none)
  created,      \* CreateKafka calls the remote system has accepted
  pc,           \* where the running handler stands; "idle": none is running
  err,          \* the handler's variable err
  krId,         \* kr.Id, the identifier CreateKafka returned (kafkaCreate)
  kafka,        \* the value WaitForStateContext returned (kafkaCreate)
  polls,        \* calls of Refresh by the wait in progress
  i,            \* createACLForKafka's loop index, from 1
  lastRefresh,  \* state and error the last Refresh of this handler returned
                \* (kafkaRead: the status and error of its get-by-id)
  adminStatus,  \* status KafkaAdmin's last get-by-id of this handler fetched
  applied,      \* indices of the bindings CreateAcl accepted, in call order
  calls,        \* remote calls this handler has issued, by kind
  result,       \* the handler that returned last and its diagnostics
  requestPayload \* the payload the last kafkaCreate built from its record

vars ==
  << d, remote, created, pc, err, krId, kafka, polls, i, lastRefresh,
     adminStatus, applied, calls, result, requestPayload >>

NoCalls == [create |-> 0, get |-> 0, delete |-> 0, acl |-> 0]
\* state and err: what Refresh returned; err1: the error of its get-by-id
NoRefresh == [state |-> "none", err |-> NilErr, err1 |-> NilErr]
NoResult == [op |-> "none", kind |-> "none", detail |-> ""]
\* no kafkaCreate has built a payload yet
NoPayload == [ok |-> FALSE, field |-> "none"]

\* errors WaitForStateContext makes itself
TimeoutError == RemoteErr("timeout while waiting for state", BodyNone)
UnexpectedStateError == RemoteErr("unexpected state", BodyNone)
ContextCanceled == RemoteErr("context canceled", BodyNone)

Init ==
  /\ d = NewResourceData("foo", << >>)
  /\ remote = NoRemote
  /\ created = 0
  /\ pc = "idle"
  /\ err = NilErr
  /\ krId = NoId
  /\ kafka = ZeroKafkaRequest
  /\ polls = 0
  /\ i = 0
  /\ lastRefresh = NoRefresh
  /\ adminStatus = "none"
  /\ applied = << >>
  /\ calls = NoCalls
  /\ result = NoResult
  /\ requestPayload = NoPayload

\* the handler returns diagnostics `kind` ("ok": none); its locals are gone
Return(op, kind, detail) ==
  /\ pc' = "idle"
  /\ result' = [op |-> op, kind |-> kind, detail |-> detail]
  /\ krId' = NoId
  /\ kafka' = ZeroKafkaRequest
  /\ polls' = 0
  /\ i' = 0

----------------------------------------------------------------------------
(* The remote system *)

Exists(id) == id # NoId /\ id = remote.id /\ remote.status # Absent

\* the answers GetKafkaById(id) can give in the current remote state
GetKafkaById(id) ==
  IF Exists(id)
  THEN { [kafka |-> KafkaRequest(remote), err |-> NilErr] }
         \cup { [kafka |-> ZeroKafkaRequest, err |-> e] : e \in OtherErrs }
  ELSE { [kafka |-> ZeroKafkaRequest, err |-> e] : e \in NotFoundErrs \cup OtherErrs }

\* the errors DeleteKafkaById(id) can answer (NilErr: the delete is accepted)
DeleteKafkaById(id) ==
  IF Exists(id) THEN { NilErr } \cup OtherErrs ELSE NotFoundErrs \cup OtherErrs

\* The instance changes status on its own; the bootstrap host is there from
\* the first time it is ready.  Its name, provider and region stay.
RemoteStep ==
  /\ remote.status # Absent
  /\ \E s \in (Statuses \cup { Absent }) \ { remote.status } :
       remote' = [ remote EXCEPT
                     !.status = s,
                     !.bootstrap_server_host =
                        IF s = StatusReady THEN BootstrapHost ELSE @ ]
  /\ UNCHANGED << d, created, pc, err, krId, kafka, polls, i, lastRefresh,
                  adminStatus, applied, calls, result, requestPayload >>


----------------------------------------------------------------------------
(* kafkaCreate *)

\* createACLForKafka's loop from index k to its next remote call or its
\* return: past the end it returns nil; an element that lacks a key ends it
\* with the error naming the key; otherwise KafkaAdmin is called for it.
\* (d.Get of a list is never nil and always a list: those returns are dead.)
createACLForKafka(rd, data, k) ==
  IF k > Len(rd.acl) THEN Return("create", "ok", "")
  ELSE IF FirstMissing(rd.acl[k], 1) # ""
       THEN Return("create", "acl_field", FirstMissing(rd.acl[k], 1))
       ELSE /\ pc' = "create_KafkaAdmin"
            /\ i' = k
            /\ kafka' = data
            /\ UNCHANGED << result, krId, polls >>

\* mutant: the error of CreateKafka is not returned
kafkaCreate_AfterCreateKafka_ErrorPassed(rd, payload, e, apiErr) ==
  LET id == IF IsNil(e) THEN KafkaIds[created + 1] ELSE NoId
  IN  /\ remote' = IF IsNil(e) THEN NewRemote(id, payload) ELSE remote
      /\ created' = IF IsNil(e) THEN created + 1 ELSE created
      /\ krId' = id
      /\ d' = [rd EXCEPT !.id = id]
      /\ pc' = "create_wait"
      /\ UNCHANGED << result, kafka, polls, i >>

\* mutant: the identifier is not recorded before the wait
kafkaCreate_AfterCreateKafka_NoSetId(rd, payload, e, apiErr) ==
  IF ~IsNil(apiErr)
  THEN /\ d' = rd
       /\ Return("create", "api", "")
       /\ UNCHANGED << remote, created >>
  ELSE LET id == IF IsNil(e) THEN KafkaIds[created + 1] ELSE NoId
       IN  /\ remote' = IF IsNil(e) THEN NewRemote(id, payload) ELSE remote
           /\ created' = IF IsNil(e) THEN created + 1 ELSE created
           /\ krId' = id
           /\ d' = rd
           /\ pc' = "create_wait"
           /\ UNCHANGED << result, kafka, polls, i >>

\* CreateKafka answered (kr, resp, e) and GetAPIError gave apiErr for it (nil
\* when e is nil): the error return, or d.SetId(kr.Id) and the start of the
\* wait.  kr is the created instance, or the zero value when e is not nil.
kafkaCreate_AfterCreateKafka(rd, payload, e, apiErr) ==
  IF ~IsNil(apiErr)
  THEN /\ d' = rd
       /\ Return("create", "api", "")
       /\ UNCHANGED << remote, created >>
  ELSE LET id == IF IsNil(e) THEN KafkaIds[created + 1] ELSE NoId
       IN  /\ remote' = IF IsNil(e) THEN NewRemote(id, payload) ELSE remote
           /\ created' = IF IsNil(e) THEN created + 1 ELSE created
           /\ krId' = id
           /\ d' = [rd EXCEPT !.id = id]
           /\ pc' = "create_wait"
           /\ UNCHANGED << result, kafka, polls, i >>

\* kafkaCreate from its entry to the return of CreateKafka and d.SetId(kr.Id),
\* for a configuration whose name is in `names` and whose acl list is in
\* `acls`, while fewer than `max` instances have been created.
kafkaCreate_CreateKafkaOf(names, acls, max) ==
  /\ pc = "idle"
  /\ d.id = NoId
  /\ created < max
  /\ \E name \in names, acl \in acls, e \in { NilErr } \cup OtherErrs :
       LET rd == NewResourceData(name, acl)
           payload == mapResourceDataToKafkaPayload(rd)
       IN  /\ lastRefresh' = NoRefresh
           /\ adminStatus' = "none"
           /\ applied' = << >>
           /\ requestPayload' = payload
           /\ IF ~payload.ok
              THEN /\ d' = rd
                   /\ Return("create", "field", payload.field)
                   /\ calls' = NoCalls
                   /\ err' = RemoteErr("field not found in schema", BodyNone)
                   /\ UNCHANGED << remote, created >>
              ELSE \E apiErr \in (IF IsNil(e) THEN { NilErr } ELSE GetAPIError(e)) :
                     /\ calls' = [NoCalls EXCEPT !.create = 1]
                     /\ err' = e
                     /\ kafkaCreate_AfterCreateKafka(rd, payload, e, apiErr)

\* From the entry to the return of CreateKafka and d.SetId(kr.Id).
kafkaCreate_CreateKafka == kafkaCreate_CreateKafkaOf(Names, AclLists, MaxCreates)

\* One Refresh of createStateConf and what WaitForStateContext does with its
\* result; when the wait ends with the target state: the cast, the hydration
\* and createACLForKafka up to its first remote call.
kafkaCreate_Refresh ==
  /\ pc = "create_wait"
  /\ polls < MaxPolls
  /\ \E r \in GetKafkaById(krId) :
     \E apiErr \in (IF IsNil(r.err) THEN { NilErr } ELSE GetAPIError(err)) :
       LET state == IF IsNil(apiErr) THEN r.kafka.status ELSE ""
           step == WaitForStateStep(CreatePending, CreateTarget, state, apiErr)
       IN  /\ calls' = [calls EXCEPT !.get = @ + 1]
           /\ lastRefresh' = [state |-> state, err |-> apiErr, err1 |-> r.err]
           /\ UNCHANGED << remote, created, adminStatus, applied, requestPayload >>
           /\ CASE step = "error" ->
                     /\ err' = apiErr
                     /\ Return("create", "api", "")
                     /\ d' = d
                [] step = "unexpected_state" ->
                     /\ err' = UnexpectedStateError
                     /\ Return("create", "unexpected_state", state)
                     /\ d' = d
                [] step = "pending" ->
                     /\ polls' = polls + 1
                     /\ UNCHANGED << d, kafka, krId, i, err, pc, result >>
                [] step = "done" ->
                     /\ err' = NilErr
                     /\ d' = setResourceDataFromKafkaData(d, r.kafka)
                     /\ createACLForKafka(d, r.kafka, 1)

\* mutant: the timed-out create drops the identifier it had recorded
kafkaCreate_Timeout_DropsId ==
  /\ pc = "create_wait"
  /\ err' = TimeoutError
  /\ d' = [d EXCEPT !.id = NoId]
  /\ Return("create", "timeout", "")
  /\ UNCHANGED << remote, created, lastRefresh, adminStatus, applied, calls,
                  requestPayload >>

\* mutant: when the time budget runs out the wait is started over
kafkaCreate_Timeout_StartsOver ==
  /\ pc = "create_wait"
  /\ polls' = 0
  /\ UNCHANGED << d, remote, created, pc, err, krId, kafka, i, lastRefresh,
                  adminStatus, applied, calls, result, requestPayload >>

\* The time budget runs out while the wait is polling: a TimeoutError.
kafkaCreate_Timeout ==
  /\ pc = "create_wait"
  /\ err' = TimeoutError
  /\ Return("create", "timeout", "")
  /\ UNCHANGED << d, remote, created, lastRefresh, adminStatus, applied, calls,
                  requestPayload >>

\* mutant: the cancellation is noted and the wait goes on
kafkaCreate_Cancel_KeepsPolling ==
  /\ pc = "create_wait"
  /\ err' = ContextCanceled
  /\ UNCHANGED << d, remote, created, pc, krId, kafka, polls, i, lastRefresh,
                  adminStatus, applied, calls, result, requestPayload >>

\* ctx is cancelled while the wait is polling: the wait returns ctx.Err().
kafkaCreate_Cancel ==
  /\ pc = "create_wait"
  /\ err' = ContextCanceled
  /\ Return("create", "cancelled", "")
  /\ UNCHANGED << d, remote, created, lastRefresh, adminStatus, applied, calls,
                  requestPayload >>

\* factory.KafkaAdmin(&ctx, kafka.GetId()) for element i: its own get-by-id
\* and its checks of the answer.
kafkaCreate_KafkaAdmin ==
  /\ pc = "create_KafkaAdmin"
  /\ \E r \in GetKafkaById(kafka.id) :
       LET out == KafkaAdmin(r.kafka, r.err)
       IN  /\ calls' = [calls EXCEPT !.get = @ + 1]
           /\ adminStatus' = r.kafka.status
           /\ IF out = "ok"
              THEN /\ pc' = "create_CreateAcl"
                   /\ UNCHANGED << err, result, krId, kafka, polls, i >>
              ELSE /\ err' = RemoteErr(out, BodyNone)
                   /\ Return("create", "kafka_admin", out)
  /\ UNCHANGED << d, remote, created, lastRefresh, applied, requestPayload >>

\* mutant: a failed CreateAcl is passed over and the loop goes on
kafkaCreate_CreateAcl_GoesOn ==
  /\ pc = "create_CreateAcl"
  /\ \E e \in { NilErr } \cup OtherErrs :
       /\ calls' = [calls EXCEPT !.acl = @ + 1]
       /\ err' = e
       /\ applied' = IF IsNil(e) THEN Append(applied, i) ELSE applied
       /\ createACLForKafka(d, kafka, i + 1)
  /\ UNCHANGED << d, remote, created, lastRefresh, adminStatus, requestPayload >>

\* CreateAcl for element i, then the loop up to its next remote call.
kafkaCreate_CreateAcl ==
  /\ pc = "create_CreateAcl"
  /\ \E e \in { NilErr } \cup OtherErrs :
       /\ calls' = [calls EXCEPT !.acl = @ + 1]
       /\ err' = e
       /\ IF IsNil(e)
          THEN applied' = Append(applied, i) /\ createACLForKafka(d, kafka, i + 1)
          ELSE Return("create", "acl_api", "") /\ UNCHANGED applied
  /\ UNCHANGED << d, remote, created, lastRefresh, adminStatus, requestPayload >>

----------------------------------------------------------------------------
(* kafkaDelete *)

\* the diagnostics kind of an error WaitForStateContext returned
WaitErrKind(e) ==
  IF e = TimeoutError THEN "timeout"
  ELSE IF e = UnexpectedStateError THEN "unexpected_state"
  ELSE IF e = ContextCanceled THEN "cancelled"
  ELSE "api"

\* mutant: every error of the wait is taken for "not found"
kafkaDelete_AfterWait_AnyError(waitErr) ==
  /\ err' = waitErr
  /\ d' = [d EXCEPT !.id = NoId]
  /\ Return("delete", "ok", "")

\* After deleteStateConf.WaitForStateContext returned waitErr: an error whose
\* text does not contain "not found" is returned wrapped; otherwise
\* d.SetId("") and no diagnostics.
kafkaDelete_AfterWait(waitErr) ==
  /\ err' = waitErr
  /\ IF ~IsNil(waitErr) /\ ~ContainsNotFound(waitErr)
     THEN d' = d /\ Return("delete", WaitErrKind(waitErr), "")
     ELSE d' = [d EXCEPT !.id = NoId] /\ Return("delete", "ok", "")

\* mutant: every error of DeleteKafkaById is taken for "already deleted"
kafkaDelete_DeleteKafkaById_AnyErrorIsGone ==
  /\ pc = "idle"
  /\ d.id # NoId
  /\ \E e \in DeleteKafkaById(d.id) :
       /\ err' = e
       /\ remote' = IF IsNil(e) /\ remote.status \notin { StatusDeleting, StatusDeleted }
                    THEN [remote EXCEPT !.status = StatusDeprovision]
                    ELSE remote
       /\ IF ~IsNil(e)
          THEN d' = [d EXCEPT !.id = NoId] /\ Return("delete", "ok", "")
          ELSE /\ d' = d
               /\ pc' = "delete_wait"
               /\ UNCHANGED << result, krId, kafka, polls, i >>
  /\ calls' = [NoCalls EXCEPT !.delete = 1]
  /\ lastRefresh' = NoRefresh
  /\ adminStatus' = "none"
  /\ applied' = << >>
  /\ UNCHANGED << created, requestPayload >>

\* From the entry to the return of DeleteKafkaById and what follows it.
kafkaDelete_DeleteKafkaById ==
  /\ pc = "idle"
  /\ d.id # NoId
  /\ \E e \in DeleteKafkaById(d.id) :
       /\ err' = e
       /\ remote' = IF IsNil(e) /\ remote.status \notin { StatusDeleting, StatusDeleted }
                    THEN [remote EXCEPT !.status = StatusDeprovision]
                    ELSE remote
       /\ IF ~IsNil(e) /\ e.text = Err404Bare
          THEN d' = [d EXCEPT !.id = NoId] /\ Return("delete", "ok", "")
          ELSE IF ~IsNil(e)
               THEN d' = d /\ Return("delete", "api", "")
               ELSE /\ d' = d
                    /\ pc' = "delete_wait"
                    /\ UNCHANGED << result, krId, kafka, polls, i >>
  /\ calls' = [NoCalls EXCEPT !.delete = 1]
  /\ lastRefresh' = NoRefresh
  /\ adminStatus' = "none"
  /\ applied' = << >>
  /\ UNCHANGED << created, requestPayload >>

\* One Refresh of deleteStateConf and what WaitForStateContext and the code
\* after it do with its result.  An error that is not "404 Not Found" and
\* that GetAPIError translates to nil leaves data.Status nil: the dereference
\* panics.
kafkaDelete_Refresh ==
  /\ pc = "delete_wait"
  /\ polls < MaxPolls
  /\ \E r \in GetKafkaById(d.id) :
       LET is404 == ~IsNil(r.err) /\ r.err.text = Err404NotFound
       IN  \E apiErr \in (IF IsNil(r.err) \/ is404 THEN { NilErr } ELSE GetAPIError(r.err)) :
             LET state == IF is404 THEN State404
                          ELSE IF IsNil(apiErr) THEN r.kafka.status ELSE ""
                 step == WaitForStateStep(DeletePending, DeleteTarget, state, apiErr)
             IN  /\ calls' = [calls EXCEPT !.get = @ + 1]
                 /\ lastRefresh' = [state |-> state, err |-> apiErr, err1 |-> r.err]
                 /\ IF ~IsNil(r.err) /\ ~is404 /\ IsNil(apiErr)
                    THEN d' = d /\ err' = err /\ Return("delete", "panic", "")
                    ELSE CASE step = "error" -> kafkaDelete_AfterWait(apiErr)
                           [] step = "unexpected_state" ->
                                kafkaDelete_AfterWait(UnexpectedStateError)
                           [] step = "pending" ->
                                /\ polls' = polls + 1
                                /\ UNCHANGED << d, err, pc, result, krId, kafka, i >>
                           [] step = "done" -> kafkaDelete_AfterWait(NilErr)
  /\ UNCHANGED << remote, created, adminStatus, applied, requestPayload >>

\* mutant: the timed-out delete gives the instance up for gone
kafkaDelete_Timeout_ClearsId ==
  /\ pc = "delete_wait"
  /\ err' = TimeoutError
  /\ d' = [d EXCEPT !.id = NoId]
  /\ Return("delete", "ok", "")
  /\ UNCHANGED << remote, created, lastRefresh, adminStatus, applied, calls,
                  requestPayload >>

\* The time budget runs out while the wait is polling.
kafkaDelete_Timeout ==
  /\ pc = "delete_wait"
  /\ kafkaDelete_AfterWait(TimeoutError)
  /\ UNCHANGED << remote, created, lastRefresh, adminStatus, applied, calls,
                  requestPayload >>

\* ctx is cancelled while the wait is polling.
kafkaDelete_Cancel ==
  /\ pc = "delete_wait"
  /\ kafkaDelete_AfterWait(ContextCanceled)
  /\ UNCHANGED << remote, created, lastRefresh, adminStatus, applied, calls,
                  requestPayload >>

----------------------------------------------------------------------------
(* kafkaRead *)

\* mutant: a not-found answer makes the read drop the identifier
kafkaRead_DropsIdOnNotFound ==
  /\ pc = "idle"
  /\ d.id # NoId
  /\ \E r \in GetKafkaById(d.id) :
     \E apiErr \in (IF IsNil(r.err) THEN { NilErr } ELSE GetAPIError(r.err)) :
       /\ err' = r.err
       /\ lastRefresh' = [state |-> r.kafka.status, err |-> apiErr, err1 |-> r.err]
       /\ IF r.err \in NotFoundErrs
          THEN d' = [d EXCEPT !.id = NoId] /\ Return("read", "ok", "")
          ELSE IF ~IsNil(apiErr)
               THEN d' = d /\ Return("read", "api", "")
               ELSE /\ d' = setResourceDataFromKafkaData(d, r.kafka)
                    /\ Return("read", "ok", "")
  /\ calls' = [NoCalls EXCEPT !.get = 1]
  /\ adminStatus' = "none"
  /\ applied' = << >>
  /\ UNCHANGED << remote, created, requestPayload >>

\* From the entry to the return: one get-by-id and the hydration.
kafkaRead ==
  /\ pc = "idle"
  /\ d.id # NoId
  /\ \E r \in GetKafkaById(d.id) :
     \E apiErr \in (IF IsNil(r.err) THEN { NilErr } ELSE GetAPIError(r.err)) :
       /\ err' = r.err
       /\ lastRefresh' = [state |-> r.kafka.status, err |-> apiErr, err1 |-> r.err]
       /\ IF ~IsNil(apiErr)
          THEN d' = d /\ Return("read", "api", "")
          ELSE d' = setResourceDataFromKafkaData(d, r.kafka) /\ Return("read", "ok", "")
  /\ calls' = [NoCalls EXCEPT !.get = 1]
  /\ adminStatus' = "none"
  /\ applied' = << >>
  /\ UNCHANGED << remote, created, requestPayload >>

----------------------------------------------------------------------------
(* Specification *)

Next ==
  \/ kafkaCreate_CreateKafka
  \/ kafkaCreate_Refresh
  \/ kafkaCreate_Timeout
  \/ kafkaCreate_Cancel
  \/ kafkaCreate_KafkaAdmin
  \/ kafkaCreate_CreateAcl
  \/ kafkaDelete_DeleteKafkaById
  \/ kafkaDelete_Refresh
  \/ kafkaDelete_Timeout
  \/ kafkaDelete_Cancel
  \/ kafkaRead
  \/ RemoteStep

Spec == Init /\ [][Next]_vars

\* Time advances, so the Timeout of a wait in progress runs out, and each
\* remote call returns, so KafkaAdmin and CreateAcl of the binding loop
\* complete.  Nothing is assumed of the remote system or of the polls.
Fairness ==
  /\ WF_vars(kafkaCreate_Timeout)
  /\ WF_vars(kafkaDelete_Timeout)
  /\ WF_vars(kafkaCreate_KafkaAdmin)
  /\ WF_vars(kafkaCreate_CreateAcl)

\* Whether a handler returns does not depend on the configured name: the
\* configurations are those of one name, with every list of up to two bindings.
LiveNames == { "foo" }
LiveAclLists == SeqsUpTo(BindingSpecs, 2)

Live_kafkaCreate_CreateKafka ==
  kafkaCreate_CreateKafkaOf(LiveNames, LiveAclLists, MaxCreates)

LiveNext ==
  \/ Live_kafkaCreate_CreateKafka
  \/ kafkaCreate_Refresh
  \/ kafkaCreate_Timeout
  \/ kafkaCreate_Cancel
  \/ kafkaCreate_KafkaAdmin
  \/ kafkaCreate_CreateAcl
  \/ kafkaDelete_DeleteKafkaById
  \/ kafkaDelete_Refresh
  \/ kafkaDelete_Timeout
  \/ kafkaDelete_Cancel
  \/ kafkaRead
  \/ RemoteStep

LiveSpec == Init /\ [][LiveNext]_vars /\ Fairness

----------------------------------------------------------------------------
(* Replacement: every input of the schema is ForceNew and the resource has  *)
(* no update handler, so a configuration whose name changed is applied by   *)
(* kafkaDelete on the old instance and kafkaCreate of a new one             *)
(* (TestAccRHOASKafka_Update).  The n-th instance is configured with the    *)
(* n-th name.                                                               *)

RecreateNames == << "foo", "bar", "baz", "qux" >>
\* the configurations carry no binding or one complete binding
RecreateAclLists == { << >>, << AllAclFields >> }

Recreate_kafkaCreate_CreateKafka ==
  /\ created < Len(RecreateNames)
  /\ kafkaCreate_CreateKafkaOf({ RecreateNames[created + 1] }, RecreateAclLists,
                               MaxRecreates)

RecreateNext ==
  \/ Recreate_kafkaCreate_CreateKafka
  \/ kafkaCreate_Refresh
  \/ kafkaCreate_Timeout
  \/ kafkaCreate_Cancel
  \/ kafkaCreate_KafkaAdmin
  \/ kafkaCreate_CreateAcl
  \/ kafkaDelete_DeleteKafkaById
  \/ kafkaDelete_Refresh
  \/ kafkaDelete_Timeout
  \/ kafkaDelete_Cancel
  \/ kafkaRead
  \/ RemoteStep

RecreateSpec == Init /\ [][RecreateNext]_vars

----------------------------------------------------------------------------
(* The Field Mapper on its own: one record is hydrated from one answer of   *)
(* the remote system and a create payload is built from it.                 *)

\* names, providers and regions an answer may carry ("": the field is unset
\* and its getter gives the zero value)
MapperNames == { "", "foo", "bar" }
MapperProviders == { "", "aws", "gcp" }
MapperRegions == { "", "us-east-1", "eu-west-1" }

\* the answers of get-by-id the mapper is run on
MapperKafkaRequests ==
  { [ KafkaRequest(NoRemote) EXCEPT
        !.id = KafkaIds[1], !.status = st, !.name = n,
        !.cloud_provider = cp, !.region = rg ] :
      st \in { StatusReady, StatusFailed }, n \in MapperNames,
      cp \in MapperProviders, rg \in MapperRegions }

MapperInit ==
  /\ d \in { NewResourceData(n, << >>) : n \in Names }
  /\ kafka \in MapperKafkaRequests
  /\ remote = NoRemote
  /\ created = 0
  /\ pc = "idle"
  /\ err = NilErr
  /\ krId = NoId
  /\ polls = 0
  /\ i = 0
  /\ lastRefresh = NoRefresh
  /\ adminStatus = "none"
  /\ applied = << >>
  /\ calls = NoCalls
  /\ result = NoResult
  /\ requestPayload = NoPayload

\* setResourceDataFromKafkaData(d, &kafka)
Mapper_setResourceDataFromKafkaData ==
  /\ pc = "idle"
  /\ d' = setResourceDataFromKafkaData(d, kafka)
  /\ pc' = "hydrated"
  /\ UNCHANGED << remote, created, err, krId, kafka, polls, i, lastRefresh,
                  adminStatus, applied, calls, result, requestPayload >>

\* mapResourceDataToKafkaPayload(factory, d) on the hydrated record
Mapper_mapResourceDataToKafkaPayload ==
  /\ pc = "hydrated"
  /\ requestPayload' = mapResourceDataToKafkaPayload(d)
  /\ pc' = "mapped"
  /\ UNCHANGED << d, remote, created, err, krId, kafka, polls, i, lastRefresh,
                  adminStatus, applied, calls, result >>

MapperNext ==
  \/ Mapper_setResourceDataFromKafkaData
  \/ Mapper_mapResourceDataToKafkaPayload

MapperSpec == MapperInit /\ [][MapperNext]_vars


----------------------------------------------------------------------------
(* Properties *)

CreatePcs == { "create_wait", "create_KafkaAdmin", "create_CreateAcl" }

\* the handler `op` has returned and no other has started since
Returned(op) == pc = "idle" /\ result.op = op

\* C1: whenever kafkaCreate returns without error, the last poll observed
\* `ready` and the status of the local record is `ready`; and a create whose
\* polls ended on `ready` can only fail in its bindings: without bindings it
\* returns without error.
C1_CreateSuccessIsReady ==
  Returned("create") =>
    /\ result.kind = "ok" =>
         /\ lastRefresh.state = StatusReady
         /\ IsNil(lastRefresh.err)
         /\ d.status = StatusReady
    /\ lastRefresh.state = StatusReady =>
         result.kind \in { "ok", "acl_field", "kafka_admin", "acl_api" }
    /\ (lastRefresh.state = StatusReady /\ Len(d.acl) = 0) => result.kind = "ok"

\* create returned without error after a pending poll and a ready one
C1_Witness ==
  /\ Returned("create")
  /\ result.kind = "ok"
  /\ Len(d.acl) = 0
  /\ calls.get = 2
  /\ d.status = StatusReady

C3_FirstAclFailureAborts ==
  /\ applied = [ k \in 1..Len(applied) |-> k ]
  /\ calls.acl \in { Len(applied), Len(applied) + 1 }
  /\ Len(applied) <= Len(d.acl)
  /\ (Returned("create") /\ result.kind = "acl_api") =>
        /\ calls.acl = Len(applied) + 1
        /\ calls.acl <= Len(d.acl)
        /\ ~IsNil(err)
  /\ (Returned("create") /\ calls.acl = Len(applied) + 1) => result.kind = "acl_api"

\* of two bindings the first is applied and the second submission fails
C3_Witness ==
  /\ Returned("create")
  /\ result.kind = "acl_api"
  /\ Len(d.acl) = 2
  /\ applied = << 1 >>
  /\ calls.acl = 2


\* C4: when CreateAcl is issued, the status the create poll fetched last is
\* `ready`, and the status KafkaAdmin's own get-by-id fetched for the binding
\* is none of accepted, preparing, provisioning, failed, deprovision, deleting.
C4_AclOnlyWhenReady ==
  pc = "create_CreateAcl" =>
    /\ lastRefresh.state = StatusReady
    /\ adminStatus \notin
         { StatusAccepted, StatusPreparing, StatusProvisioning, StatusFailed,
           StatusDeprovision, StatusDeleting }

C6_CreateKafkaErrorAborts ==
  [][ (kafkaCreate_CreateKafka /\ calls'.create = 1 /\ ~IsNil(err')) =>
        /\ pc' = "idle"
        /\ result' = [op |-> "create", kind |-> "api", detail |-> ""]
        /\ d'.id = NoId
        /\ remote' = remote
        /\ created' = created
        /\ calls'.get = 0
        /\ calls'.acl = 0 ]_vars

\* kafkaCreate has returned the error of CreateKafka
C6_Witness ==
  /\ Returned("create")
  /\ result.kind = "api"
  /\ calls = [NoCalls EXCEPT !.create = 1]
  /\ ~IsNil(err)
  /\ d.id = NoId
  /\ d.name = "foo"

\* CreateKafka has returned without error in the create that runs or that
\* returned last
CreateKafkaSucceeded ==
  \/ pc \in CreatePcs
  \/ /\ Returned("create")
     /\ result.kind # "field"
     /\ ~(result.kind = "api" /\ lastRefresh = NoRefresh)

\* C7: from the successful return of CreateKafka on, at every point of the
\* create and after each of its returns, the local identifier is the one the
\* remote system assigned to the instance.
C7_IdentifierKept ==
  CreateKafkaSucceeded =>
    /\ d.id # NoId
    /\ d.id = KafkaIds[created]
    /\ d.id = remote.id

\* the create failed at its second binding and holds the identifier
C7_Witness ==
  /\ Returned("create")
  /\ result.kind = "acl_api"
  /\ applied = << 1 >>
  /\ d.id = KafkaIds[1]
  /\ remote.id = KafkaIds[1]

\* C8: a create whose name is empty returns a field error without having
\* issued any remote call.
C8_EmptyNameRejected ==
  ((pc \in CreatePcs \/ Returned("create")) /\ d.name = "") =>
    /\ pc = "idle"
    /\ result.kind = "field"
    /\ calls = NoCalls

\* C9: when DeleteKafkaById answers not-found, kafkaDelete returns without
\* error in that step, with the identifier cleared and no get-by-id issued.
C9_DeleteNotFoundSucceeds ==
  [][ (kafkaDelete_DeleteKafkaById /\ err' \in NotFoundErrs) =>
        /\ pc' = "idle"
        /\ result'.op = "delete"
        /\ result'.kind = "ok"
        /\ d'.id = NoId
        /\ calls'.get = 0 ]_vars

\* C10: kafkaRead leaves the identifier as it is; when get-by-id answers
\* not-found it returns an error and leaves the whole record as it is.
C10_ReadKeepsIdentifier ==
  [][ kafkaRead =>
        /\ result'.op = "read"
        /\ d'.id = d.id
        /\ result'.kind # "ok" => d' = d
        /\ lastRefresh'.err \in NotFoundErrs => (result'.kind = "api" /\ d' = d) ]_vars

\* kafkaRead got not-found for a created instance and kept the record
C10_Witness ==
  /\ Returned("read")
  /\ result.kind = "api"
  /\ lastRefresh.err \in NotFoundErrs
  /\ d.id = KafkaIds[1]
  /\ d.status = StatusReady
  /\ remote.status = Absent

\* C11: hydrating the record from an answer of the remote system and then
\* building a create payload from it succeeds and gives a payload whose name,
\* cloud_provider and region are those of the answer, whatever the record held
\* before.
C11_MapperRoundTrip ==
  pc = "mapped" =>
    /\ requestPayload.ok
    /\ requestPayload.name = kafka.name
    /\ requestPayload.cloud_provider = kafka.cloud_provider
    /\ requestPayload.region = kafka.region

\* the round trip of an answer whose three inputs all differ from the
\* record's own
C11_Witness ==
  /\ pc = "mapped"
  /\ requestPayload.ok
  /\ requestPayload.name = "bar"
  /\ requestPayload.cloud_provider = "gcp"
  /\ requestPayload.region = "eu-west-1"
  /\ d.status = StatusReady

\* C12: the name, provider and region the remote system holds under one
\* identifier never change, and neither does the name of the local record
\* while its identifier stays; the record takes a new name only in a
\* kafkaCreate that starts without identifier (the old instance deleted) and
\* gets an identifier never used before; a create that returns without error
\* leaves the record and the remote instance under the configured name, ready.
C12_NameChangesOnlyByReplacement ==
  /\ [][ /\ remote'.id = remote.id =>
              /\ remote'.name = remote.name
              /\ remote'.cloud_provider = remote.cloud_provider
              /\ remote'.region = remote.region
         /\ (d.id # NoId /\ d'.id = d.id) =>
              /\ d'.name = d.name
              /\ d'.cloud_provider = d.cloud_provider
              /\ d'.region = d.region
         /\ d'.name # d.name =>
              /\ d.id = NoId
              /\ Recreate_kafkaCreate_CreateKafka
              /\ d'.id \in { NoId, KafkaIds[created + 1] } ]_vars
  /\ [] ( (Returned("create") /\ result.kind = "ok") =>
            /\ d.name = RecreateNames[created]
            /\ remote.name = RecreateNames[created]
            /\ remote.cloud_provider = DefaultCloudProvider
            /\ remote.region = DefaultRegion
            /\ d.id = KafkaIds[created]
            /\ remote.id = d.id
            /\ d.status = StatusReady )

\* the second instance, created under the second name after the first was
\* deleted, is ready
C12_Witness ==
  /\ Returned("create")
  /\ result.kind = "ok"
  /\ created = 2
  /\ d.name = RecreateNames[2]
  /\ remote.name = RecreateNames[2]
  /\ d.id = KafkaIds[2]
  /\ d.status = StatusReady

\* C13 as stated: a poll of the create wait that observes a status outside
\* the pending set and the target set (`failed`, say) does not end the wait:
\* kafkaCreate goes on polling.
C13_OtherStatusKeepsPolling ==
  [][ ( /\ kafkaCreate_Refresh
        /\ IsNil(lastRefresh'.err1)
        /\ lastRefresh'.state \notin (CreatePending \cup CreateTarget) ) =>
        /\ pc' = "create_wait"
        /\ result' = result ]_vars

\* C13 as amended: a poll of the create wait that observes a status outside
\* the pending set and the target set ends the wait at once: kafkaCreate
\* returns an unexpected-state error naming the status, the record is left as
\* it was (identifier set, not hydrated) and no binding is submitted.
C13_OtherStatusEndsWait ==
  [][ ( /\ kafkaCreate_Refresh
        /\ IsNil(lastRefresh'.err1)
        /\ lastRefresh'.state \notin (CreatePending \cup CreateTarget) ) =>
        /\ pc' = "idle"
        /\ result' = [op |-> "create", kind |-> "unexpected_state",
                      detail |-> lastRefresh'.state]
        /\ err' = UnexpectedStateError
        /\ d' = d
        /\ d'.id # NoId
        /\ calls'.acl = 0
        /\ applied' = << >> ]_vars

\* the second poll of a create observed `failed` and ended it
C13_Witness ==
  /\ Returned("create")
  /\ result.kind = "unexpected_state"
  /\ result.detail = StatusFailed
  /\ lastRefresh.state = StatusFailed
  /\ calls.get = 2
  /\ d.id = KafkaIds[1]
  /\ d.status = ""

\* C14: a poll whose get-by-id fails (in a delete: with another error than
\* not-found) ends the operation in that step with an API error: the handler
\* returns, the record is left as it was and, in a create, no binding is
\* submitted.
C14_PollErrorEndsOperation ==
  [][ /\ (kafkaCreate_Refresh /\ ~IsNil(lastRefresh'.err1)) =>
           /\ pc' = "idle"
           /\ result'.op = "create"
           /\ result'.kind = "api"
           /\ ~IsNil(err')
           /\ d' = d
           /\ calls'.acl = 0
      /\ ( /\ kafkaDelete_Refresh
           /\ ~IsNil(lastRefresh'.err1)
           /\ lastRefresh'.err1 \notin NotFoundErrs ) =>
           /\ pc' = "idle"
           /\ result'.op = "delete"
           /\ result'.kind = "api"
           /\ ~IsNil(err')
           /\ d' = d ]_vars

\* C15: when DeleteKafkaById fails with another error than not-found,
\* kafkaDelete returns an API error in that step: no get-by-id is issued, the
\* record keeps its identifier and the remote instance is as it was.
C15_DeleteErrorKeepsIdentifier ==
  [][ ( /\ kafkaDelete_DeleteKafkaById
        /\ ~IsNil(err')
        /\ err' \notin NotFoundErrs ) =>
        /\ pc' = "idle"
        /\ result' = [op |-> "delete", kind |-> "api", detail |-> ""]
        /\ d' = d
        /\ d'.id # NoId
        /\ calls'.get = 0
        /\ remote' = remote ]_vars

\* kafkaDelete has returned the error of DeleteKafkaById and kept the
\* identifier of the instance, which is still there
C15_Witness ==
  /\ Returned("delete")
  /\ result.kind = "api"
  /\ err \in OtherErrs
  /\ calls = [NoCalls EXCEPT !.delete = 1]
  /\ d.id = KafkaIds[1]
  /\ remote.status = StatusReady

\* C16: a poll of the delete wait whose get-by-id answers not-found, or gives
\* the status `deleted`, ends kafkaDelete in that step without error and with
\* the identifier cleared.
C16_PollNotFoundSucceeds ==
  [][ ( /\ kafkaDelete_Refresh
        /\ \/ lastRefresh'.err1 \in NotFoundErrs
           \/ (IsNil(lastRefresh'.err1) /\ lastRefresh'.state = StatusDeleted) ) =>
        /\ pc' = "idle"
        /\ result' = [op |-> "delete", kind |-> "ok", detail |-> ""]
        /\ d'.id = NoId ]_vars

\* C17: a delete whose wait ran out of time returns the timeout error and
\* keeps the identifier; a delete whose last poll was still pending ends in no
\* other way than by the timeout (or the cancellation of its context); and a
\* wait that ended with an error is taken for a success only if the error text
\* contains "not found".
C17_DeleteTimeout ==
  Returned("delete") =>
    /\ result.kind = "timeout" =>
         /\ err = TimeoutError
         /\ lastRefresh.state \in (DeletePending \cup { "none" })
         /\ d.id # NoId
         /\ d.id = remote.id
    /\ lastRefresh.state \in DeletePending =>
         (result.kind \in { "timeout", "cancelled" } /\ d.id # NoId)
    /\ (calls.get > 0 /\ result.kind = "ok" /\ ~IsNil(err)) => ContainsNotFound(err)
    /\ (calls.get > 0 /\ ~IsNil(err) /\ ~ContainsNotFound(err)) =>
         (result.kind # "ok" /\ d.id # NoId)

\* every poll of the budget saw the instance still going and the delete
\* timed out
C17_Witness ==
  /\ Returned("delete")
  /\ result.kind = "timeout"
  /\ calls.get = MaxPolls
  /\ lastRefresh.state = StatusDeleting
  /\ d.id = KafkaIds[1]

\* some element of the record's acl list lacks one of the six keys
HasIncompleteBinding == \E k \in 1..Len(d.acl) : FirstMissing(d.acl[k], 1) # ""

\* C18: a create whose acl list holds an element that lacks a required key
\* returns the error naming the key without having issued any remote call:
\* no instance is created and no binding applied.
C18_AclValidatedFirst ==
  ((pc \in CreatePcs \/ Returned("create")) /\ HasIncompleteBinding) =>
    /\ pc = "idle"
    /\ result.kind = "acl_field"
    /\ calls = NoCalls
    /\ applied = << >>
    /\ d.id = NoId

\* C19: when the context is cancelled during the wait of a create or of a
\* delete, the handler returns the cancellation error in that step: it issues
\* no further call, submits no binding and leaves the record as it was; and
\* a create that was cancelled during its wait has submitted no binding.
C19_CancelEndsWait ==
  /\ [][ /\ kafkaCreate_Cancel =>
              /\ pc' = "idle"
              /\ result' = [op |-> "create", kind |-> "cancelled", detail |-> ""]
              /\ err' = ContextCanceled
              /\ calls' = calls
              /\ applied' = applied
              /\ d' = d
         /\ kafkaDelete_Cancel =>
              /\ pc' = "idle"
              /\ result' = [op |-> "delete", kind |-> "cancelled", detail |-> ""]
              /\ err' = ContextCanceled
              /\ calls' = calls
              /\ d' = d ]_vars
  /\ [] ( (pc = "idle" /\ result.kind = "cancelled") =>
            /\ calls.acl = 0
            /\ applied = << >>
            /\ calls.get <= MaxPolls
            /\ d.id # NoId
            /\ lastRefresh.state # StatusReady )

\* a create was cancelled after one pending poll, with bindings configured
C19_Witness ==
  /\ Returned("create")
  /\ result.kind = "cancelled"
  /\ err = ContextCanceled
  /\ calls.get = 1
  /\ lastRefresh.state \in CreatePending
  /\ Len(d.acl) > 0

\* C21: a kafkaCreate or a kafkaDelete that is running eventually returns,
\* whatever the remote system answers and however its status changes.
C21_HandlersReturn == (pc # "idle") ~> (pc = "idle")

\* a delete has returned by the timeout after every poll of its budget found
\* the instance still in `deprovision`
C21_Witness ==
  /\ Returned("delete")
  /\ result.kind = "timeout"
  /\ calls.get = MaxPolls
  /\ lastRefresh.state = StatusDeprovision
  /\ remote.status = StatusDeprovision
  /\ d.id = remote.id

============================================================================
